---- MODULE Spec2Model ----
(***************************************************************************)
(* Task-management assistant: the in-memory task store (tools/task_tools),  *)
(* the explicit request pipeline of the Gemini agent                       *)
(* (agents/google_adk_agent), the CrewAI agent (agents/crewai_agent) and   *)
(* the TaskManager that fronts them (agents/task_manager).                 *)
(*                                                                         *)
(* Python values are represented as follows.  A str is a TLA+ string, the  *)
(* Python None in a str position is the string None below (no text of the  *)
(* program equals it), an ISO timestamp is the value of the clock at the   *)
(* moment datetime.now() was called (a positive integer) and a None        *)
(* timestamp is NoTime.  Request texts are sequences of one-character      *)
(* strings, so that `in` (substring) and lower() are computed.             *)
(***************************************************************************)
EXTENDS Integers, Sequences, FiniteSets, TLC

VARIABLES
    tasks_db,      \* task_tools.tasks_db: the ordered list of task dicts
    now,           \* the wall clock read by datetime.now(); time passes between calls
    call,          \* history: the last store operation called and its arguments
    ret,           \* value the last store operation returned
    created_ids,   \* history: ids handed out by create_task, in call order
    agent_type,    \* TaskManager.agent_type of the manager in use
    pc,            \* where process_request (or process_task) stands
    request,       \* user_request, a sequence of characters
    action,        \* parsed["action"]
    reply,         \* history: what generate_content gave the extractor
    params,        \* the parameter dict handed to _execute_action
    result,        \* what _execute_action returned
    response,      \* what TaskManager.process returned
    events,        \* history: events the agent and the manager logged in this call
    trail,         \* history: the pipeline components run in this call, in order
    served         \* history: number of requests taken so far

store_vars == <<tasks_db, now, call, ret, created_ids>>
agent_vars == <<agent_type, pc, request, action, reply, params, result, response,
               events, trail, served>>
vars == <<tasks_db, now, call, ret, created_ids,
          agent_type, pc, request, action, reply, params, result, response,
          events, trail, served>>

-----------------------------------------------------------------------------
(* Bounds *)

\* the clock stops at MaxClock: a run makes at most MaxClock calls of the store
MaxClock == 5
\* generated request texts have at most MaxWords words
MaxWords == 2
\* generated extraction replies have at most MaxTokens tokens
MaxTokens == 3
\* a run of the agent takes at most MaxRequests requests
MaxRequests == 3

-----------------------------------------------------------------------------
(* Python values *)

None == "<None>"
NoTime == 0

\* bool(v) for a str-or-None value: None and "" are falsy
Truthy(v) == v /= None /\ v /= ""

Statuses == {"pending", "in_progress", "completed"}
Priorities == {"low", "medium", "high"}

\* argument values the callers of the store are drawn from
CreateTitles == {"T1"}
CreateDescriptions == {""}
CreatePriorities == {"medium"}
CreateDueDates == {None}
StatusFilters == {None, "", "pending", "in_progress", "completed"}
TaskIds == 1..MaxClock

\* update_task called with its keyword defaults
NoArgs ==
    [title |-> None, description |-> None, priority |-> None,
     status |-> None, due_date |-> None]

\* update_task called with every keyword empty
AllEmpty ==
    [title |-> "", description |-> "", priority |-> "",
     status |-> "", due_date |-> ""]

\* update_task called with one keyword
OneField ==
    {[NoArgs EXCEPT !.title = "T2"],
     [NoArgs EXCEPT !.description = "d2"],
     [NoArgs EXCEPT !.priority = "high"],
     [NoArgs EXCEPT !.priority = "urgent"],
     [NoArgs EXCEPT !.status = "pending"],
     [NoArgs EXCEPT !.status = "in_progress"],
     [NoArgs EXCEPT !.status = "completed"],
     [NoArgs EXCEPT !.due_date = "2026-01-31"]}

\* update_task called with every keyword
AllFields ==
    [title : {"T2"}, description : {"d2"}, priority : {"urgent"},
     status : {"pending", "completed"}, due_date : {"2026-01-31"}]

UpdateArgs == {NoArgs, AllEmpty} \cup OneField \cup AllFields

-----------------------------------------------------------------------------
(* The task store: tools/task_tools.py *)

\* index of the first task with this id, 0 when there is none:
\* next((t for t in tasks_db if t["id"] == task_id), None)
FirstIndex(db, task_id) ==
    IF \E i \in 1..Len(db) : db[i].id = task_id
    THEN CHOOSE i \in 1..Len(db) :
            /\ db[i].id = task_id
            /\ \A j \in 1..(i - 1) : db[j].id /= task_id
    ELSE 0

\* the id create_task gives the next task: len(tasks_db) + 1
NextId(db) == Len(db) + 1

\* the dict create_task builds
\* create_task storing the new task as already in progress
NewTask_InProgress(db, title, description, priority, due_date, clock) ==
    [id |-> NextId(db),
     title |-> title,
     description |-> description,
     priority |-> priority,
     due_date |-> due_date,
     status |-> "in_progress",
     created_at |-> clock,
     completed_at |-> NoTime]

\* create_task stamping completed_at on the new task
NewTask_StampsCompletedAt(db, title, description, priority, due_date, clock) ==
    [id |-> NextId(db),
     title |-> title,
     description |-> description,
     priority |-> priority,
     due_date |-> due_date,
     status |-> "pending",
     created_at |-> clock,
     completed_at |-> clock]

NewTask(db, title, description, priority, due_date, clock) ==
    [id |-> NextId(db),
     title |-> title,
     description |-> description,
     priority |-> priority,
     due_date |-> due_date,
     status |-> "pending",
     created_at |-> clock,
     completed_at |-> NoTime]

\* update_task clearing completed_at when the status moves away from completed
UpdatedTask_ClearsCompletedAt(task, title, description, priority, status, due_date, clock) ==
    [id |-> task.id,
     title |-> IF Truthy(title) THEN title ELSE task.title,
     description |-> IF Truthy(description) THEN description ELSE task.description,
     priority |-> IF Truthy(priority) THEN priority ELSE task.priority,
     due_date |-> IF Truthy(due_date) THEN due_date ELSE task.due_date,
     status |-> IF Truthy(status) THEN status ELSE task.status,
     created_at |-> task.created_at,
     completed_at |-> IF Truthy(status)
                      THEN (IF status = "completed" THEN clock ELSE NoTime)
                      ELSE task.completed_at]

\* update_task testing `is not None` instead of truthiness
UpdatedTask_IsNotNone(task, title, description, priority, status, due_date, clock) ==
    [id |-> task.id,
     title |-> IF title /= None THEN title ELSE task.title,
     description |-> IF description /= None THEN description ELSE task.description,
     priority |-> IF priority /= None THEN priority ELSE task.priority,
     due_date |-> IF due_date /= None THEN due_date ELSE task.due_date,
     status |-> IF status /= None THEN status ELSE task.status,
     created_at |-> task.created_at,
     completed_at |-> IF status = "completed" THEN clock ELSE task.completed_at]

\* update_task stamping created_at anew on the task it found
UpdatedTask_Restamps(task, title, description, priority, status, due_date, clock) ==
    [id |-> task.id,
     title |-> IF Truthy(title) THEN title ELSE task.title,
     description |-> IF Truthy(description) THEN description ELSE task.description,
     priority |-> IF Truthy(priority) THEN priority ELSE task.priority,
     due_date |-> IF Truthy(due_date) THEN due_date ELSE task.due_date,
     status |-> IF Truthy(status) THEN status ELSE task.status,
     created_at |-> clock,
     completed_at |-> IF Truthy(status) /\ status = "completed"
                      THEN clock ELSE task.completed_at]

\* the in-place assignments of update_task on the task it found
UpdatedTask(task, title, description, priority, status, due_date, clock) ==
    [id |-> task.id,
     title |-> IF Truthy(title) THEN title ELSE task.title,
     description |-> IF Truthy(description) THEN description ELSE task.description,
     priority |-> IF Truthy(priority) THEN priority ELSE task.priority,
     due_date |-> IF Truthy(due_date) THEN due_date ELSE task.due_date,
     status |-> IF Truthy(status) THEN status ELSE task.status,
     created_at |-> task.created_at,
     completed_at |-> IF Truthy(status) /\ status = "completed"
                      THEN clock ELSE task.completed_at]

\* [t for t in tasks_db if t["id"] != task_id]
WithoutId(db, task_id) == SelectSeq(db, LAMBDA t : t.id /= task_id)

\* [t for t in tasks_db if t["status"] == status]
WithStatus(db, status) == SelectSeq(db, LAMBDA t : t.status = status)

\* [t for t in tasks_db if t["priority"] == priority]
WithPriority(db, priority) == SelectSeq(db, LAMBDA t : t.priority = priority)

\* list_tasks filtering on the wrong side of the comparison
ListResult_Complement(db, status) ==
    IF Truthy(status) THEN SelectSeq(db, LAMBDA t : t.status /= status) ELSE db

\* what list_tasks returns
ListResult(db, status) ==
    IF Truthy(status) THEN WithStatus(db, status) ELSE db

\* the dict get_statistics builds
Statistics(db) ==
    [total |-> Len(db),
     pending |-> Len(WithStatus(db, "pending")),
     in_progress |-> Len(WithStatus(db, "in_progress")),
     completed |-> Len(WithStatus(db, "completed")),
     high_priority |-> Len(WithPriority(db, "high")),
     medium_priority |-> Len(WithPriority(db, "medium")),
     low_priority |-> Len(WithPriority(db, "low"))]

\* return values, tagged by their Python type
RetNone == [tag |-> "none"]
RetTask(t) == [tag |-> "task", val |-> t]
RetBool(b) == [tag |-> "bool", val |-> b]
RetList(l) == [tag |-> "list", val |-> l]
RetStats(s) == [tag |-> "stats", val |-> s]

\* the time between two calls of the store
Tick ==
    /\ now < MaxClock
    /\ now' = now + 1

create_task(title, description, priority, due_date) ==
    /\ Tick
    /\ LET task == NewTask(tasks_db, title, description, priority, due_date, now')
       IN /\ tasks_db' = Append(tasks_db, task)
          /\ ret' = RetTask(task)
          /\ created_ids' = Append(created_ids, task.id)
    /\ call' = [op |-> "create", title |-> title, description |-> description,
                priority |-> priority, due_date |-> due_date]

list_tasks(status) ==
    /\ Tick
    /\ ret' = RetList(ListResult(tasks_db, status))
    /\ call' = [op |-> "list", status |-> status]
    /\ UNCHANGED <<tasks_db, created_ids>>

get_task(task_id) ==
    /\ Tick
    /\ LET i == FirstIndex(tasks_db, task_id)
       IN ret' = IF i = 0 THEN RetNone ELSE RetTask(tasks_db[i])
    /\ call' = [op |-> "get", task_id |-> task_id]
    /\ UNCHANGED <<tasks_db, created_ids>>

update_task(task_id, title, description, priority, status, due_date) ==
    LET i == FirstIndex(tasks_db, task_id)
    IN /\ Tick
       /\ call' = [op |-> "update", task_id |-> task_id, title |-> title,
                   description |-> description, priority |-> priority,
                   status |-> status, due_date |-> due_date]
       /\ IF i = 0
          THEN /\ ret' = RetNone
               /\ UNCHANGED <<tasks_db, created_ids>>
          ELSE /\ LET task == UpdatedTask(tasks_db[i], title, description, priority,
                                          status, due_date, now')
                  IN /\ tasks_db' = [tasks_db EXCEPT ![i] = task]
                     /\ ret' = RetTask(task)
               /\ UNCHANGED created_ids

delete_task(task_id) ==
    /\ Tick
    /\ tasks_db' = WithoutId(tasks_db, task_id)
    /\ ret' = RetBool(Len(tasks_db') < Len(tasks_db))
    /\ call' = [op |-> "delete", task_id |-> task_id]
    /\ UNCHANGED created_ids

get_statistics ==
    /\ Tick
    /\ ret' = RetStats(Statistics(tasks_db))
    /\ call' = [op |-> "statistics"]
    /\ UNCHANGED <<tasks_db, created_ids>>

-----------------------------------------------------------------------------
(* Request texts *)

UpperCase == <<"A", "B", "C", "D", "E", "F", "G", "H", "I", "J", "K", "L", "M",
               "N", "O", "P", "Q", "R", "S", "T", "U", "V", "W", "X", "Y", "Z">>
LowerCase == <<"a", "b", "c", "d", "e", "f", "g", "h", "i", "j", "k", "l", "m",
               "n", "o", "p", "q", "r", "s", "t", "u", "v", "w", "x", "y", "z">>

\* str.lower() on one character
LowerChar(c) ==
    IF \E i \in 1..Len(UpperCase) : UpperCase[i] = c
    THEN LowerCase[CHOOSE i \in 1..Len(UpperCase) : UpperCase[i] = c]
    ELSE c

\* user_request.lower()
lower(text) == [i \in 1..Len(text) |-> LowerChar(text[i])]

\* Python's `word in text` on strings: word occurs as a substring
Occurs(word, text) ==
    \E i \in 0..(Len(text) - Len(word)) :
        \A k \in 1..Len(word) : text[i + k] = word[k]

\* any(word in request_lower for word in words)
AnyOccurs(words, text) == \E n \in 1..Len(words) : Occurs(words[n], text)

\* the keyword lists of _parse_user_request
CreateWords == <<<<"c", "r", "e", "a", "t", "e">>, <<"a", "d", "d">>, <<"n", "e", "w", " ", "t",
        "a", "s", "k">>>>
ListWords == <<<<"l", "i", "s", "t">>, <<"s", "h", "o", "w">>, <<"g", "e", "t", " ", "t", "a", "s",
        "k", "s">>, <<"t", "a", "s", "k", "s">>>>
UpdateWords == <<<<"u", "p", "d", "a", "t", "e">>, <<"c", "h", "a", "n", "g", "e">>, <<"m", "o",
        "d", "i", "f", "y">>, <<"m", "a", "r", "k">>>>
StatisticsWords == <<<<"s", "t", "a", "t", "i", "s", "t", "i", "c", "s">>, <<"s", "t", "a", "t",
        "s">>, <<"s", "u", "m", "m", "a", "r", "y">>, <<"o", "v", "e", "r", "v", "i", "e", "w">>>>
DeleteWords == <<<<"d", "e", "l", "e", "t", "e">>, <<"r", "e", "m", "o", "v", "e">>>>

\* _parse_user_request with its branches for list and update exchanged
parse_user_request_UpdateFirst(user_request) ==
    LET request_lower == lower(user_request)
    IN IF AnyOccurs(CreateWords, request_lower) THEN "create"
       ELSE IF AnyOccurs(UpdateWords, request_lower) THEN "update"
       ELSE IF AnyOccurs(ListWords, request_lower) THEN "list"
       ELSE IF AnyOccurs(StatisticsWords, request_lower) THEN "statistics"
       ELSE IF AnyOccurs(DeleteWords, request_lower) THEN "delete"
       ELSE "general"

\* _parse_user_request: the action of the if/elif chain
parse_user_request(user_request) ==
    LET request_lower == lower(user_request)
    IN IF AnyOccurs(CreateWords, request_lower) THEN "create"
       ELSE IF AnyOccurs(ListWords, request_lower) THEN "list"
       ELSE IF AnyOccurs(UpdateWords, request_lower) THEN "update"
       ELSE IF AnyOccurs(StatisticsWords, request_lower) THEN "statistics"
       ELSE IF AnyOccurs(DeleteWords, request_lower) THEN "delete"
       ELSE "general"

\* the requests of run_demo_script and of the interactive help
DemoCreateHigh == 
    <<"C", "r", "e", "a", "t", "e", " ", "a", " ", "h", "i", "g", "h", " ", "p", "r", "i", "o",
        "r", "i", "t", "y", " ", "t", "a", "s", "k", ":", " ", "C", "o", "m", "p", "l", "e", "t",
        "e", " ", "p", "r", "o", "j", "e", "c", "t", " ", "d", "o", "c", "u", "m", "e", "n", "t",
        "a", "t", "i", "o", "n">>
DemoCreateMedium == 
    <<"C", "r", "e", "a", "t", "e", " ", "a", " ", "m", "e", "d", "i", "u", "m", " ", "p", "r",
        "i", "o", "r", "i", "t", "y", " ", "t", "a", "s", "k", ":", " ", "R", "e", "v", "i", "e",
        "w", " ", "c", "o", "d", "e", " ", "c", "h", "a", "n", "g", "e", "s">>
DemoListAll == <<"L", "i", "s", "t", " ", "a", "l", "l", " ", "t", "a", "s", "k", "s">>
DemoStatistics == <<"S", "h", "o", "w", " ", "m", "e", " ", "t", "a", "s", "k", " ", "s", "t", "a",
        "t", "i", "s", "t", "i", "c", "s">>
HelpUpdate == <<"M", "a", "r", "k", " ", "t", "a", "s", "k", " ", "1", " ", "a", "s", " ", "c",
        "o", "m", "p", "l", "e", "t", "e", "d">>
DemoRequests == {DemoCreateHigh, DemoCreateMedium, DemoListAll, DemoStatistics}

\* words the generated request texts are made of
Vocabulary ==
    {<<"C", "r", "e", "a", "t", "e">>,
     <<"a", "d", "d">>,
     <<"a", "d", "d", "r", "e", "s", "s">>,
     <<"n", "e", "w">>,
     <<"t", "a", "s", "k">>,
     <<"t", "a", "s", "k", "s">>,
     <<"l", "i", "s", "t">>,
     <<"S", "h", "o", "w">>,
     <<"g", "e", "t">>,
     <<"u", "p", "d", "a", "t", "e">>,
     <<"M", "a", "r", "k">>,
     <<"s", "t", "a", "t", "s">>,
     <<"s", "u", "m", "m", "a", "r", "y">>,
     <<"d", "e", "l", "e", "t", "e">>,
     <<"r", "e", "m", "o", "v", "e">>,
     <<"h", "e", "l", "l", "o">>}

Space == " "

RECURSIVE Join(_)
\* " ".join(words)
Join(words) ==
    IF Len(words) = 0 THEN <<>>
    ELSE IF Len(words) = 1 THEN words[1]
    ELSE words[1] \o <<Space>> \o Join(Tail(words))

CreateAListOfTasks == <<"c", "r", "e", "a", "t", "e", " ", "a", " ", "l", "i", "s", "t", " ", "o",
        "f", " ", "t", "a", "s", "k", "s">>

\* request texts: up to MaxWords words, and the documented requests
Texts ==
    {<<>>, CreateAListOfTasks, HelpUpdate}
    \cup DemoRequests
    \cup UNION {{Join(ws) : ws \in [1..n -> Vocabulary]} : n \in 1..MaxWords}

-----------------------------------------------------------------------------
(* The Gemini agent: agents/google_adk_agent.py *)

NoAction == "<unparsed>"
NoResult == [kind |-> "none"]
NoReply == [got |-> "nothing"]
EmptyDict == [k \in {} |-> None]

\* TaskManager.process around the call of its agent, lines 57-78: what it
\* returns and logs when the agent returned a value and when the agent raised
process(outcome) ==
    IF outcome.raised
    THEN [returns |-> [kind |-> "error", prefix |-> "Error processing request: "],
          logs |-> <<"task_processing_error">>]
    ELSE [returns |-> outcome.value,
          logs |-> <<"task_processed">>]

\* the agent returned this value to TaskManager.process
Returned(value) == [raised |-> FALSE, value |-> value]

\* TaskManager.process calling process_request, which takes the request and
\* logs the start event: line 230
Start(user_request) ==
    /\ pc = "idle"
    /\ agent_type = "google_adk"
    /\ served < MaxRequests
    /\ served' = served + 1
    /\ request' = user_request
    /\ action' = NoAction
    /\ reply' = NoReply
    /\ params' = EmptyDict
    /\ result' = NoResult
    /\ response' = NoResult
    /\ events' = <<"task_processing_started">>
    /\ trail' = <<>>
    /\ pc' = "parse"
    /\ UNCHANGED agent_type
    /\ UNCHANGED store_vars

\* process_request extracting parameters whatever the action is
Parse_AlwaysExtracts ==
    /\ pc = "parse"
    /\ action' = parse_user_request(request)
    /\ pc' = "extract"
    /\ trail' = Append(trail, "classifier")
    /\ UNCHANGED <<agent_type, request, reply, params, result, response, events, served>>
    /\ UNCHANGED store_vars

\* process_request lines 233-238: classify, and decide whether to extract
Parse ==
    /\ pc = "parse"
    /\ action' = parse_user_request(request)
    /\ pc' = IF action' \in {"create", "update", "delete"} THEN "extract" ELSE "execute"
    /\ trail' = Append(trail, "classifier")
    /\ UNCHANGED <<agent_type, request, reply, params, result, response, events, served>>
    /\ UNCHANGED store_vars

\* a None where the program expects an int
NoneId == -1

\* a test that lets a None id through
FalsyId_OnlyZero(task_id) == task_id = 0

\* bool(task_id) is False for None and for 0
FalsyId(task_id) == task_id = NoneId \/ task_id = 0

\* params.get(key, default)
Get(dict, key, default) == IF key \in DOMAIN dict THEN dict[key] ELSE default

\* JSON objects the model's extraction reply parses to
ParamDicts ==
    {EmptyDict,
     [title |-> "Doc", priority |-> "high"],
     [title |-> "Doc", priority |-> "urgent"],
     [title |-> "Doc", description |-> "text", priority |-> "low",
      due_date |-> "2026-01-31"],
     [title |-> None],
     [title |-> ""],
     [task_id |-> 1, status |-> "completed"],
     [task_id |-> 1, status |-> "in_progress", priority |-> "high", title |-> "New"],
     [task_id |-> 1, status |-> "done"],
     [task_id |-> 2],
     [task_id |-> 0, status |-> "completed"],
     [task_id |-> NoneId],
     [status |-> "completed"]}

\* a value json.loads returns that is not a dict: a list, a number, a str or
\* None; no JSON object of the model has the key pytype
NotADict(pytype) == [pytype |-> pytype]

\* isinstance(value, dict)
IsDict(value) == "pytype" \notin DOMAIN value

\* A reply text is a sequence of tokens: the two code fence markers, a line
\* break, a stretch of words that is not JSON, or the text of one JSON value
JsonFence == [tok |-> "fence_json"]
Fence == [tok |-> "fence"]
Newline == [tok |-> "newline"]
Prose == [tok |-> "prose"]
Json(value) == [tok |-> "json", value |-> value]

\* position of the first token of one of these kinds, 0 when there is none
Find(text, kinds) ==
    IF \E i \in 1..Len(text) : text[i].tok \in kinds
    THEN CHOOSE i \in 1..Len(text) :
             /\ text[i].tok \in kinds
             /\ \A j \in 1..(i - 1) : text[j].tok \notin kinds
    ELSE 0

\* text.split(sep)[1].split(fence)[0], sep being one of the two fence markers
\* and occurring in text: what stands between the first sep and the next
\* fence, the three backquotes that open the json fence included
Fenced(text, sep) ==
    LET rest == SubSeq(text, Find(text, {sep}) + 1, Len(text))
        stop == Find(rest, {"fence", "fence_json"})
    IN IF stop = 0 THEN rest ELSE SubSeq(rest, 1, stop - 1)

\* str.strip()
strip(text) ==
    LET keep == {i \in 1..Len(text) : text[i].tok /= "newline"}
    IN IF keep = {} THEN <<>>
       ELSE SubSeq(text, CHOOSE i \in keep : \A j \in keep : i <= j,
                         CHOOSE i \in keep : \A j \in keep : j <= i)

\* lines 114-120: the text handed to json.loads
Unfenced(text) ==
    LET response_text == strip(text)
    IN IF Find(response_text, {"fence_json"}) /= 0
       THEN strip(Fenced(response_text, "fence_json"))
       ELSE IF Find(response_text, {"fence"}) /= 0
            THEN strip(Fenced(response_text, "fence"))
            ELSE response_text

\* json.loads: the text of exactly one JSON value, white space around it
\* allowed, gives that value; everything else raises
json_loads(text) ==
    LET body == SelectSeq(text, LAMBDA t : t.tok /= "newline")
    IN IF Len(body) = 1 /\ body[1].tok = "json"
       THEN [raised |-> FALSE, value |-> body[1].value]
       ELSE [raised |-> TRUE]

\* generate_content raised, or gave this text
Raised == [got |-> "raised"]
Text(text) == [got |-> "text", text |-> text]

\* the try block of _extract_task_info raises: generate_content did, or
\* json.loads does
ExtractionRaises(r) == r.got = "raised" \/ json_loads(Unfenced(r.text)).raised

\* _extract_task_info with an except branch that returns an empty title
extract_task_info_EmptyTitle(r) ==
    IF r.got = "raised" THEN [title |-> ""]
    ELSE LET parsed == json_loads(Unfenced(r.text))
         IN IF parsed.raised THEN [title |-> ""] ELSE parsed.value

\* _extract_task_info: what the try block returns, {} from the except branch
extract_task_info(r) ==
    IF r.got = "raised" THEN EmptyDict
    ELSE LET parsed == json_loads(Unfenced(r.text))
         IN IF parsed.raised THEN EmptyDict ELSE parsed.value

\* values the JSON text of a generated reply stands for
ReplyValues ==
    {EmptyDict,
     [title |-> "Doc", priority |-> "high"],
     [task_id |-> 1, status |-> "completed"],
     NotADict("list"),
     NotADict("NoneType")}

Tokens == {JsonFence, Fence, Newline, Prose} \cup {Json(v) : v \in ReplyValues}

\* the reply texts of at most MaxTokens tokens
Replies == UNION {[1..n -> Tokens] : n \in 0..MaxTokens}

\* the replies the running agent is given: each JSON object on its own, one
\* of them in a fenced block, JSON that is not an object, and plain words
AgentReplies ==
    {<<Json(d)>> : d \in ParamDicts}
    \cup {<<JsonFence, Newline, Json([title |-> "Doc", priority |-> "high"]), Newline, Fence>>,
          <<Json(NotADict("list"))>>,
          <<Prose>>}

\* _extract_task_info after generate_content returned this text
Extract(text) ==
    /\ pc = "extract"
    /\ reply' = Text(text)
    /\ params' = extract_task_info(reply')
    /\ events' = IF ExtractionRaises(reply')
                 THEN Append(events, "task_info_extraction_failed") ELSE events
    /\ trail' = Append(trail, "extractor")
    /\ pc' = "execute"
    /\ UNCHANGED <<agent_type, request, action, result, response, served>>
    /\ UNCHANGED store_vars

ExtractReplied == \E text \in AgentReplies : Extract(text)

\* _extract_task_info when generate_content raises: the except branch
\* returns {}
ExtractFailed ==
    /\ pc = "extract"
    /\ reply' = Raised
    /\ params' = extract_task_info(reply')
    /\ events' = IF ExtractionRaises(reply')
                 THEN Append(events, "task_info_extraction_failed") ELSE events
    /\ trail' = Append(trail, "extractor")
    /\ pc' = "execute"
    /\ UNCHANGED <<agent_type, request, action, result, response, served>>
    /\ UNCHANGED store_vars

\* one "• ID ..." entry of the listing: due date and description only if truthy
FormatTask(t) ==
    [id |-> t.id, title |-> t.title, status |-> t.status, priority |-> t.priority,
     due |-> IF Truthy(t.due_date) THEN <<t.due_date>> ELSE <<>>,
     description |-> IF Truthy(t.description) THEN <<t.description>> ELSE <<>>]

\* the statistics report: the seven counts in the order of the f-string
FormatStatistics(stats) ==
    [kind |-> "statistics",
     counts |-> <<stats.total, stats.pending, stats.in_progress, stats.completed,
                  stats.high_priority, stats.medium_priority, stats.low_priority>>]

\* _execute_action, action == "create"
ExecuteCreate ==
    /\ pc = "execute"
    /\ action = "create"
    /\ IsDict(params)
    /\ create_task(Get(params, "title", "Untitled Task"),
                   Get(params, "description", ""),
                   Get(params, "priority", "medium"),
                   Get(params, "due_date", None))
    /\ result' = [kind |-> "created", id |-> ret'.val.id, title |-> ret'.val.title,
                  priority |-> ret'.val.priority, status |-> ret'.val.status]

\* _execute_action listing the completed tasks only
ExecuteList_CompletedOnly ==
    /\ pc = "execute"
    /\ action = "list"
    /\ IsDict(params)
    /\ list_tasks("completed")
    /\ result' = IF ret'.val = <<>>
                 THEN [kind |-> "no_tasks"]
                 ELSE [kind |-> "list",
                       entries |-> [i \in 1..Len(ret'.val) |-> FormatTask(ret'.val[i])]]

\* _execute_action, action == "list"
ExecuteList ==
    /\ pc = "execute"
    /\ action = "list"
    /\ IsDict(params)
    /\ list_tasks(Get(params, "status", None))
    /\ result' = IF ret'.val = <<>>
                 THEN [kind |-> "no_tasks"]
                 ELSE [kind |-> "list",
                       entries |-> [i \in 1..Len(ret'.val) |-> FormatTask(ret'.val[i])]]

\* _execute_action, action == "update"
ExecuteUpdate ==
    /\ pc = "execute"
    /\ action = "update"
    /\ IsDict(params)
    /\ LET task_id == Get(params, "task_id", NoneId)
       IN IF FalsyId(task_id)
          THEN /\ result' = [kind |-> "id_required", for |-> "updates"]
               /\ UNCHANGED store_vars
          ELSE /\ update_task(task_id,
                              Get(params, "title", None),
                              Get(params, "description", None),
                              Get(params, "priority", None),
                              Get(params, "status", None),
                              None)
               /\ result' = IF ret'.tag = "task"
                            THEN [kind |-> "updated", task_id |-> task_id,
                                  title |-> ret'.val.title, status |-> ret'.val.status,
                                  priority |-> ret'.val.priority]
                            ELSE [kind |-> "not_found", task_id |-> task_id]

\* _execute_action, action == "delete"
ExecuteDelete ==
    /\ pc = "execute"
    /\ action = "delete"
    /\ IsDict(params)
    /\ LET task_id == Get(params, "task_id", NoneId)
       IN IF FalsyId(task_id)
          THEN /\ result' = [kind |-> "id_required", for |-> "deletion"]
               /\ UNCHANGED store_vars
          ELSE /\ delete_task(task_id)
               /\ result' = IF ret'.val
                            THEN [kind |-> "deleted", task_id |-> task_id]
                            ELSE [kind |-> "not_found", task_id |-> task_id]

\* _execute_action, action == "statistics"
ExecuteStatistics ==
    /\ pc = "execute"
    /\ action = "statistics"
    /\ get_statistics
    /\ result' = FormatStatistics(ret'.val)

\* _execute_action, the else branch
ExecuteGeneral ==
    /\ pc = "execute"
    /\ action \notin {"create", "list", "update", "delete", "statistics"}
    /\ result' = [kind |-> "general"]
    /\ UNCHANGED store_vars

\* the branches that call params.get, which only a dict has
ReadsParams == {"create", "list", "update", "delete"}

\* _execute_action with the AttributeError reported under another heading
ExecuteRaised_OtherHeading ==
    /\ pc = "execute"
    /\ action \in ReadsParams
    /\ ~IsDict(params)
    /\ result' = [kind |-> "error", prefix |-> "Error: ",
                  message |-> "AttributeError"]
    /\ UNCHANGED store_vars

\* _execute_action, the except branch: params.get raised AttributeError
\* before any store call
ExecuteRaised ==
    /\ pc = "execute"
    /\ action \in ReadsParams
    /\ ~IsDict(params)
    /\ result' = [kind |-> "error", prefix |-> "Error executing action: ",
                  message |-> "AttributeError"]
    /\ UNCHANGED store_vars

\* process_request line 242: result = self._execute_action(action, params)
Execute ==
    /\ \/ ExecuteCreate
       \/ ExecuteList
       \/ ExecuteUpdate
       \/ ExecuteDelete
       \/ ExecuteStatistics
       \/ ExecuteGeneral
       \/ ExecuteRaised
    /\ events' = IF result'.kind = "error"
                 THEN Append(events, "action_execution_failed") ELSE events
    /\ trail' = Append(trail, "dispatcher")
    /\ pc' = "compose"
    /\ UNCHANGED <<agent_type, request, action, reply, params, response, served>>

\* process_request lines 255-261: the model phrases the result; the manager
\* logs task_processed and hands the text on
ComposeOk ==
    /\ pc = "compose"
    /\ LET final_result == [kind |-> "generated", about |-> result]
       IN /\ response' = process(Returned(final_result)).returns
          /\ events' = Append(events, "task_processing_completed")
                          \o process(Returned(final_result)).logs
    /\ trail' = Append(trail, "composer")
    /\ pc' = "idle"
    /\ UNCHANGED <<agent_type, request, action, reply, params, result, served>>
    /\ UNCHANGED store_vars

\* process_request undoing a create of the dispatcher when composing fails
ComposeFailed_RollsBack ==
    /\ pc = "compose"
    /\ LET error_msg == [kind |-> "error", prefix |-> "I encountered an error: "]
       IN /\ response' = process(Returned(error_msg)).returns
          /\ events' = Append(events, "task_processing_failed")
                          \o process(Returned(error_msg)).logs
    /\ trail' = Append(trail, "composer")
    /\ pc' = "idle"
    /\ tasks_db' = IF result.kind = "created"
                   THEN WithoutId(tasks_db, result.id) ELSE tasks_db
    /\ UNCHANGED <<agent_type, request, action, reply, params, result, served>>
    /\ UNCHANGED <<now, call, ret, created_ids>>

\* process_request lines 263-267: generate_content raised; the except branch
\* returns its message to the manager, which logs task_processed
ComposeFailed ==
    /\ pc = "compose"
    /\ LET error_msg == [kind |-> "error", prefix |-> "I encountered an error: "]
       IN /\ response' = process(Returned(error_msg)).returns
          /\ events' = Append(events, "task_processing_failed")
                          \o process(Returned(error_msg)).logs
    /\ trail' = Append(trail, "composer")
    /\ pc' = "idle"
    /\ UNCHANGED <<agent_type, request, action, reply, params, result, served>>
    /\ UNCHANGED store_vars

-----------------------------------------------------------------------------
(* The CrewAI agent: agents/crewai_agent.py, and the choice of the agent *)

AgentTypes == {"google_adk", "crewai"}

\* TaskManager.__init__: a manager for this agent type replaces the one in use
NewManager(type) ==
    /\ pc = "idle"
    /\ type /= agent_type
    /\ agent_type' = type
    /\ UNCHANGED <<pc, request, action, reply, params, result, response, events,
                   trail, served>>
    /\ UNCHANGED store_vars

\* an Agent built with every tool of the module in its tools list
AgentTools_AllWired == {"create_task", "list_tasks", "update_task", "get_task_statistics"}

\* Agent(..., tools=[]): the names of the tools the framework may run
AgentTools == {}

\* the framework running one of the agent's tools: CreateTaskTool._run and
\* the others, each calling the TaskTools operation of its name
RunTool(tool) ==
    \/ /\ tool = "create_task"
       /\ \E title \in CreateTitles, priority \in CreatePriorities :
             create_task(title, "", priority, None)
    \/ /\ tool = "list_tasks"
       /\ \E status \in StatusFilters : list_tasks(status)
    \/ /\ tool = "update_task"
       /\ \E task_id \in TaskIds, status \in Statuses :
             update_task(task_id, None, None, None, status, None)
    \/ /\ tool = "get_task_statistics"
       /\ get_statistics

\* TaskManager.process calling process_task, which takes the request and logs
\* the start event: line 192
StartCrew(user_request) ==
    /\ pc = "idle"
    /\ agent_type = "crewai"
    /\ served < MaxRequests
    /\ served' = served + 1
    /\ request' = user_request
    /\ action' = NoAction
    /\ reply' = NoReply
    /\ params' = EmptyDict
    /\ result' = NoResult
    /\ response' = NoResult
    /\ events' = <<"task_processing_started">>
    /\ trail' = <<>>
    /\ pc' = "kickoff"
    /\ UNCHANGED agent_type
    /\ UNCHANGED store_vars

\* process_task lines 194-215: crew.kickoff() returned, after running no tool
\* or one of the agent's tools; the manager logs task_processed
KickoffOk ==
    /\ pc = "kickoff"
    /\ \/ UNCHANGED store_vars
       \/ \E tool \in AgentTools : RunTool(tool)
    /\ LET answer == [kind |-> "generated", about |-> NoResult]
       IN /\ response' = process(Returned(answer)).returns
          /\ events' = Append(events, "task_processing_completed")
                          \o process(Returned(answer)).logs
    /\ pc' = "idle"
    /\ UNCHANGED <<agent_type, request, action, reply, params, result, trail, served>>

\* process_task lines 217-221: building or running the crew raised; the
\* except branch returns its message to the manager, which logs task_processed
KickoffFailed ==
    /\ pc = "kickoff"
    /\ LET error_msg == [kind |-> "error", prefix |-> "Error processing request: "]
       IN /\ response' = process(Returned(error_msg)).returns
          /\ events' = Append(events, "task_processing_failed")
                          \o process(Returned(error_msg)).logs
    /\ pc' = "idle"
    /\ UNCHANGED <<agent_type, request, action, reply, params, result, trail, served>>
    /\ UNCHANGED store_vars

-----------------------------------------------------------------------------
(* The store driven directly by its callers *)

StoreInit ==
    /\ tasks_db = <<>>
    /\ now = 0
    /\ call = [op |-> "init"]
    /\ ret = RetNone
    /\ created_ids = <<>>

\* no request has been taken
AgentIdle ==
    /\ agent_type = "google_adk"
    /\ pc = "idle"
    /\ request = <<>>
    /\ action = NoAction
    /\ reply = NoReply
    /\ params = EmptyDict
    /\ result = NoResult
    /\ response = NoResult
    /\ events = <<>>
    /\ trail = <<>>
    /\ served = 0

Init == StoreInit /\ AgentIdle

CreateStep ==
    /\ UNCHANGED agent_vars
    /\ \E title \in CreateTitles, description \in CreateDescriptions,
          priority \in CreatePriorities, due_date \in CreateDueDates :
           create_task(title, description, priority, due_date)

ListStep ==
    /\ UNCHANGED agent_vars
    /\ \E status \in StatusFilters : list_tasks(status)

GetStep ==
    /\ UNCHANGED agent_vars
    /\ \E task_id \in TaskIds : get_task(task_id)

UpdateStep ==
    /\ UNCHANGED agent_vars
    /\ \E task_id \in TaskIds, a \in UpdateArgs :
          update_task(task_id, a.title, a.description, a.priority, a.status, a.due_date)

DeleteStep ==
    /\ UNCHANGED agent_vars
    /\ \E task_id \in TaskIds : delete_task(task_id)

StatisticsStep ==
    /\ UNCHANGED agent_vars
    /\ get_statistics

Next ==
    \/ CreateStep
    \/ ListStep
    \/ GetStep
    \/ UpdateStep
    \/ DeleteStep
    \/ StatisticsStep

Spec == Init /\ [][Next]_vars

-----------------------------------------------------------------------------
(* The agent driven by requests *)

\* the list example of the help text, which names a status:
\* "Show me all pending tasks"
HelpList ==
    <<"S", "h", "o", "w", " ", "m", "e", " ", "a", "l", "l", " ",
      "p", "e", "n", "d", "i", "n", "g", " ", "t", "a", "s", "k", "s">>

\* the requests the agent is driven with
Requests ==
    {DemoCreateHigh, DemoListAll, DemoStatistics, HelpUpdate, HelpList,
     <<"D", "e", "l", "e", "t", "e", " ", "t", "a", "s", "k", " ", "1">>,
     <<"s", "t", "a", "t", "s">>,
     <<"h", "e", "l", "l", "o">>}

NextAgent ==
    \/ \E r \in Requests : Start(r)
    \/ Parse
    \/ ExtractReplied
    \/ ExtractFailed
    \/ Execute
    \/ ComposeOk
    \/ ComposeFailed

SpecAgent == Init /\ [][NextAgent]_vars

-----------------------------------------------------------------------------
(* Managers of both agent types serving requests on the one store *)

NextManager ==
    \/ \E type \in AgentTypes : NewManager(type)
    \/ \E r \in Requests : Start(r)
    \/ Parse
    \/ ExtractReplied
    \/ ExtractFailed
    \/ Execute
    \/ ComposeOk
    \/ ComposeFailed
    \/ \E r \in Requests : StartCrew(r)
    \/ KickoffOk
    \/ KickoffFailed

SpecManager == Init /\ [][NextManager]_vars

-----------------------------------------------------------------------------
(* The classifier applied to request texts *)

InitClassify ==
    /\ StoreInit
    /\ agent_type = "google_adk"
    /\ events = <<"task_processing_started">>
    /\ trail = <<>>
    /\ pc = "parse"
    /\ request \in Texts
    /\ action = NoAction
    /\ reply = NoReply
    /\ params = EmptyDict
    /\ result = NoResult
    /\ response = NoResult
    /\ served = 1

NextClassify == Parse

SpecClassify == InitClassify /\ [][NextClassify]_vars

-----------------------------------------------------------------------------
(* The extractor applied to reply texts *)

InitExtract ==
    /\ StoreInit
    /\ agent_type = "google_adk"
    /\ events = <<"task_processing_started">>
    /\ trail = <<"classifier">>
    /\ pc = "extract"
    /\ request = DemoCreateHigh
    /\ action = "create"
    /\ reply = NoReply
    /\ params = EmptyDict
    /\ result = NoResult
    /\ response = NoResult
    /\ served = 1

ExtractAnyReply == \E text \in Replies : Extract(text)

NextExtract ==
    \/ ExtractAnyReply
    \/ ExtractFailed

SpecExtract == InitExtract /\ [][NextExtract]_vars

-----------------------------------------------------------------------------
(* Properties of the task store *)

UpdatableFields == {"title", "description", "priority", "status", "due_date"}

\* the positions of db holding a task with this id
Holding(db, task_id) == {i \in 1..Len(db) : db[i].id = task_id}

\* C1: the ids returned by successive create_task calls are pairwise distinct
\* and strictly increasing, deletes in between included
C1_IdsNeverReused ==
    \A i, j \in 1..Len(created_ids) :
        i < j => created_ids[i] < created_ids[j]

\* C2: no two tasks in the collection have the same id
C2_UniqueIds ==
    \A i, j \in 1..Len(tasks_db) :
        i /= j => tasks_db[i].id /= tasks_db[j].id

\* C3: the record returned by get_statistics has pending + in_progress +
\* completed = total = low + medium + high, total being the number of tasks
C3_StatisticsAddUp ==
    call.op = "statistics" =>
        /\ ret.val.total = Len(tasks_db)
        /\ ret.val.pending + ret.val.in_progress + ret.val.completed = ret.val.total
        /\ ret.val.low_priority + ret.val.medium_priority + ret.val.high_priority
               = ret.val.total

\* C5: an update of an existing task with status = completed stamps
\* completed_at with the current time (not null); any other update, one that
\* sets another status included, leaves every completed_at as it was
C5_CompletedAt ==
    [][call'.op = "update" =>
        /\ Len(tasks_db') = Len(tasks_db)
        /\ \A j \in 1..Len(tasks_db) :
              tasks_db'[j].completed_at /= tasks_db[j].completed_at =>
                  call'.status = "completed" /\ tasks_db[j].id = call'.task_id
        /\ (call'.status = "completed" /\ Holding(tasks_db, call'.task_id) /= {}) =>
              \E j \in Holding(tasks_db, call'.task_id) :
                  /\ tasks_db'[j].completed_at /= NoTime
                  /\ tasks_db'[j].completed_at = now'
                  /\ ret' = RetTask(tasks_db'[j])]_vars

\* a completed task was reopened by an update and kept its completed_at
C5_Witness ==
    /\ call.op = "update"
    /\ call.status = "pending"
    /\ ret.tag = "task"
    /\ ret.val.status = "pending"
    /\ ret.val.completed_at /= NoTime
    /\ \E i \in 1..Len(tasks_db) : tasks_db[i] = ret.val

\* C6: an update of an existing task leaves each of title, description,
\* priority, status, due_date as stored when the argument is None or empty and
\* overwrites it when the argument is non-empty; no other task changes and no
\* field becomes empty by an update
C6_FalsySkip ==
    [][(call'.op = "update" /\ Holding(tasks_db, call'.task_id) /= {}) =>
        /\ Len(tasks_db') = Len(tasks_db)
        /\ \E j \in Holding(tasks_db, call'.task_id) :
              /\ \A f \in UpdatableFields :
                    tasks_db'[j][f] = IF call'[f] \in {None, ""}
                                      THEN tasks_db[j][f] ELSE call'[f]
              /\ \A k \in (1..Len(tasks_db)) \ {j} :
                    \A f \in UpdatableFields : tasks_db'[k][f] = tasks_db[k][f]
        /\ \A j \in 1..Len(tasks_db) : \A f \in UpdatableFields :
              tasks_db'[j][f] /= tasks_db[j][f] => tasks_db'[j][f] \notin {None, ""}]_vars

\* an update with one keyword overwrote that field and kept the others
C6_Witness ==
    /\ call.op = "update"
    /\ call.title = "T2"
    /\ call.description = None
    /\ ret.tag = "task"
    /\ ret.val.title = "T2"
    /\ ret.val.description = ""

\* the k-th smallest element of a set of positions
Kth(I, k) == CHOOSE i \in I : Cardinality({j \in I : j < i}) = k - 1

\* l is db restricted to the positions I, order kept
IsRestriction(l, db, I) ==
    /\ Len(l) = Cardinality(I)
    /\ \A k \in 1..Len(l) : l[k] = db[Kth(I, k)]

\* C7: list_tasks with a status returns exactly the tasks of that status in
\* insertion order, list_tasks without a status (None, or the empty string that
\* stands for "no filter") returns all tasks in insertion order, and the store
\* is as it was
C7_ListFilters ==
    [][call'.op = "list" =>
        /\ tasks_db' = tasks_db
        /\ ret'.tag = "list"
        /\ IF call'.status \in {None, ""}
           THEN ret'.val = tasks_db
           ELSE IsRestriction(ret'.val, tasks_db,
                    {i \in 1..Len(tasks_db) : tasks_db[i].status = call'.status})]_vars

\* a list by status returned a proper, non-empty part of a store
C7_Witness ==
    /\ call.op = "list"
    /\ call.status = "completed"
    /\ ret.val /= <<>>
    /\ Len(ret.val) < Len(tasks_db)
    /\ tasks_db[Len(tasks_db)].status = "completed"

\* C8: delete_task of an absent id returns False and leaves the collection
\* as it was; delete_task of a present id returns True and removes exactly one
\* task, the others staying in place with their ids
C8_DeleteExactlyOne ==
    [][call'.op = "delete" =>
        IF Holding(tasks_db, call'.task_id) = {}
        THEN ret' = RetBool(FALSE) /\ tasks_db' = tasks_db
        ELSE /\ ret' = RetBool(TRUE)
             /\ Len(tasks_db') = Len(tasks_db) - 1
             /\ \E j \in Holding(tasks_db, call'.task_id) :
                   IsRestriction(tasks_db', tasks_db, (1..Len(tasks_db)) \ {j})]_vars

-----------------------------------------------------------------------------
(* Properties of the classifier *)

\* the categories in their priority order
CategoryOrder == <<"create", "list", "update", "statistics", "delete">>

\* the keyword set of a category
CategoryKeywords(category) ==
    CASE category = "create" ->
             {<<"c", "r", "e", "a", "t", "e">>,
              <<"a", "d", "d">>,
              <<"n", "e", "w", " ", "t", "a", "s", "k">>}
      [] category = "list" ->
             {<<"l", "i", "s", "t">>,
              <<"s", "h", "o", "w">>,
              <<"g", "e", "t", " ", "t", "a", "s", "k", "s">>,
              <<"t", "a", "s", "k", "s">>}
      [] category = "update" ->
             {<<"u", "p", "d", "a", "t", "e">>,
              <<"c", "h", "a", "n", "g", "e">>,
              <<"m", "o", "d", "i", "f", "y">>,
              <<"m", "a", "r", "k">>}
      [] category = "statistics" ->
             {<<"s", "t", "a", "t", "i", "s", "t", "i", "c", "s">>,
              <<"s", "t", "a", "t", "s">>,
              <<"s", "u", "m", "m", "a", "r", "y">>,
              <<"o", "v", "e", "r", "v", "i", "e", "w">>}
      [] category = "delete" ->
             {<<"d", "e", "l", "e", "t", "e">>,
              <<"r", "e", "m", "o", "v", "e">>}

\* the positions in CategoryOrder of the categories with a keyword in the text
Hits(text) ==
    {i \in 1..Len(CategoryOrder) :
        \E word \in CategoryKeywords(CategoryOrder[i]) : Occurs(word, lower(text))}

\* C9: the classifier returns the first category, in the order create, list,
\* update, statistics, delete, with a keyword occurring in the lower-cased
\* text, wherever it occurs, and general when no keyword occurs
C9_FirstCategoryWins ==
    pc /= "parse" =>
        action = IF Hits(request) = {} THEN "general"
                 ELSE CategoryOrder[CHOOSE i \in Hits(request) :
                                        \A j \in Hits(request) : i <= j]

\* a text with a list keyword before and a create keyword after it, and one
\* with both in the other order, classified as create
C9_Witness ==
    /\ pc /= "parse"
    /\ action = "create"
    /\ request \in {CreateAListOfTasks, <<"l", "i", "s", "t", " ", "a", "d", "d">>}
    /\ {1, 2} \subseteq Hits(request)

-----------------------------------------------------------------------------
(* Properties of the explicit pipeline *)

\* C4: every stored task has a status among pending, in_progress, completed
\* and a priority among low, medium, high
C4_EnumeratedValues ==
    \A i \in 1..Len(tasks_db) :
        /\ tasks_db[i].status \in Statuses
        /\ tasks_db[i].priority \in Priorities

\* C10: with an empty store, the request "Show me task statistics" makes the
\* dispatcher return the statistics report with total 0 and every count 0
C10_StatisticsOnEmptyStore ==
    (pc \in {"compose", "idle"} /\ request = DemoStatistics /\ tasks_db = <<>>) =>
        result = [kind |-> "statistics", counts |-> <<0, 0, 0, 0, 0, 0, 0>>]

\* C11: a request classified as create whose parameters carry priority high
\* appends exactly one task, with priority high and status pending, and leaves
\* the older tasks as they were, so that the statistics after the request are
\* those before it with total, high_priority and pending one higher; no other
\* step of the request changes the store
C11_CreateHighPriority ==
    [][/\ pc /= "execute" => tasks_db' = tasks_db
       /\ (pc = "execute" /\ action = "create"
              /\ Get(params, "priority", "medium") = "high") =>
            /\ Len(tasks_db') = Len(tasks_db) + 1
            /\ SubSeq(tasks_db', 1, Len(tasks_db)) = tasks_db
            /\ tasks_db'[Len(tasks_db')].priority = "high"
            /\ tasks_db'[Len(tasks_db')].status = "pending"
            /\ Statistics(tasks_db') =
                   [Statistics(tasks_db) EXCEPT !.total = @ + 1,
                                                !.high_priority = @ + 1,
                                                !.pending = @ + 1]]_vars

\* the request that created a high priority task has been answered
C11_Witness ==
    /\ pc = "idle"
    /\ action = "create"
    /\ Get(params, "priority", "medium") = "high"
    /\ result.kind = "created"
    /\ response.kind = "generated"
    /\ Statistics(tasks_db).high_priority >= 1
    /\ Statistics(tasks_db).pending >= 1

\* the fenced block of the text, or the whole text when it has no fence,
\* is the text of one JSON object
CarriesRecord(r) ==
    /\ r.got = "text"
    /\ ~json_loads(Unfenced(r.text)).raised
    /\ IsDict(json_loads(Unfenced(r.text)).value)

\* C12: the extractor always returns a mapping, and the empty one whenever
\* the text generation failed or its output, code fences stripped, is not the
\* text of a structured record
C12_ExtractReturnsRecord ==
    reply.got /= "nothing" =>
        /\ IsDict(params)
        /\ ~CarriesRecord(reply) => params = EmptyDict

\* C13: when generate_content raises during the extraction of a create
\* request, the request goes on to the dispatcher, whose step appends exactly
\* one task, titled "Untitled Task", with priority medium and status pending,
\* and reports it as created; the steps around it leave the store alone
C13_CreateAfterFailedExtraction ==
    [][(action = "create" /\ (pc = "extract" \/ reply = Raised)) =>
          /\ pc = "extract" => (pc' = "execute" /\ tasks_db' = tasks_db)
          /\ pc = "compose" => tasks_db' = tasks_db
          /\ (pc = "execute" /\ reply = Raised) =>
                /\ pc' = "compose"
                /\ Len(tasks_db') = Len(tasks_db) + 1
                /\ SubSeq(tasks_db', 1, Len(tasks_db)) = tasks_db
                /\ tasks_db'[Len(tasks_db')].title = "Untitled Task"
                /\ tasks_db'[Len(tasks_db')].priority = "medium"
                /\ tasks_db'[Len(tasks_db')].status = "pending"
                /\ result'.kind = "created"]_vars

\* a create request whose extraction failed has been answered
C13_Witness ==
    /\ pc = "idle"
    /\ action = "create"
    /\ reply = Raised
    /\ result.kind = "created"
    /\ result.title = "Untitled Task"
    /\ \E i \in 1..Len(tasks_db) : tasks_db[i].title = "Untitled Task"

\* the parameter record carries no task id: the key is absent or null
NoTaskId(p) == IsDict(p) /\ Get(p, "task_id", NoneId) = NoneId

\* C14: dispatching an update or a delete whose parameter record has no
\* task_id returns the "Task ID is required" error string and calls no store
\* operation: the tasks, the clock and the last store call stay as they were
C14_MissingTaskId ==
    [][(pc = "execute" /\ action \in {"update", "delete"} /\ NoTaskId(params)) =>
          /\ result' = [kind |-> "id_required",
                        for |-> IF action = "update" THEN "updates" ELSE "deletion"]
          /\ UNCHANGED store_vars]_vars

\* an update without task id was refused while the store held a task
C14_Witness ==
    /\ pc \in {"compose", "idle"}
    /\ action = "update"
    /\ "task_id" \notin DOMAIN params
    /\ IsDict(params)
    /\ result.kind = "id_required"
    /\ tasks_db /= <<>>

\* the strings _execute_action builds, by the return statement building them
ResultKinds ==
    {"created", "no_tasks", "list", "id_required", "updated", "not_found",
     "deleted", "statistics", "general", "error"}

\* C15: for every action tag and every value the extractor returned, the
\* dispatcher hands one of its strings back to process_request, which goes
\* on to compose; when executing the action raises (the parameters are not a
\* dict in a branch that reads them) the string is
\* "Error executing action: <message>" and the store has not been called
C15_DispatcherReturnsString ==
    [][pc = "execute" =>
          /\ pc' = "compose"
          /\ response' = response
          /\ result'.kind \in ResultKinds
          /\ (action \in ReadsParams /\ ~IsDict(params)) =>
                /\ result'.kind = "error"
                /\ result'.prefix = "Error executing action: "
                /\ UNCHANGED store_vars
          /\ result'.kind = "error" => (action \in ReadsParams /\ ~IsDict(params))]_vars

\* the dispatcher has turned the AttributeError of a list into its string
C15_Witness ==
    /\ pc = "compose"
    /\ action \in {"create", "update", "delete"}
    /\ params = NotADict("list")
    /\ result.kind = "error"
    /\ result.prefix = "Error executing action: "

-----------------------------------------------------------------------------
(* Properties of TaskManager.process under both agent types *)

\* a process call has returned
Answered == pc = "idle" /\ served > 0

\* the agent or the manager logged the failure of the call
StepFailed ==
    \E i \in 1..Len(events) :
        events[i] \in {"task_processing_failed", "task_processing_error"}

\* C16: under both agent types process returns a string, and whenever a
\* step of the processing failed the string is
\* "Error processing request: <message>"
C16_ErrorProcessingRequest ==
    Answered =>
        /\ response.kind \in {"generated", "error"}
        /\ StepFailed => response = [kind |-> "error",
                                     prefix |-> "Error processing request: "]

\* the events that close a call: the agent's own pair, and the manager's
\* pair, of which task_processed carries success: True
AgentEndEvents == {"task_processing_completed", "task_processing_failed"}
SuccessEvents == {"task_processing_completed", "task_processed"}
FailureEvents == {"task_processing_failed", "task_processing_error"}

\* how many of the logged events are among these
Count(names) == Cardinality({i \in 1..Len(events) : events[i] \in names})

\* C17: under both agent types the start event is logged before any pipeline
\* step runs and no end event before the call returns; a call that has
\* returned has logged exactly one end event of its agent, no success event
\* if it failed, and no failure event but a success event if it succeeded
C17_EventsBracketTheCall ==
    /\ events = <<>> => trail = <<>>
    /\ events /= <<>> => events[1] = "task_processing_started"
    /\ pc /= "idle" => (events /= <<>> /\ Count(SuccessEvents \cup FailureEvents) = 0)
    /\ Answered =>
          /\ Count(AgentEndEvents) = 1
          /\ response.kind = "error" => Count(SuccessEvents) = 0
          /\ response.kind /= "error" =>
                (Count(FailureEvents) = 0 /\ Count(SuccessEvents) >= 1)

-----------------------------------------------------------------------------
(* Properties of the order of the pipeline *)

\* the components a request of this action runs, in order
ExpectedTrail ==
    IF action \in {"create", "update", "delete"}
    THEN <<"classifier", "extractor", "dispatcher", "composer">>
    ELSE <<"classifier", "dispatcher", "composer">>

\* C19: the Gemini pipeline runs Classifier, Extractor, Dispatcher, Composer
\* in this order: the extractor runs exactly for create, update and delete,
\* the dispatcher exactly once after it, and the composer only once the
\* dispatcher has returned its result
C19_FixedOrder ==
    /\ pc = "parse" => trail = <<>>
    /\ pc = "extract" => (action \in {"create", "update", "delete"}
                            /\ trail = <<"classifier">>)
    /\ pc = "execute" => trail = SubSeq(ExpectedTrail, 1, Len(ExpectedTrail) - 2)
    /\ pc = "compose" => (trail = SubSeq(ExpectedTrail, 1, Len(ExpectedTrail) - 1)
                            /\ result /= NoResult)
    /\ Answered => (trail = ExpectedTrail /\ result /= NoResult)

\* a list request has been answered without the extractor, after an earlier
\* create request went through it
C19_Witness ==
    /\ Answered
    /\ action = "list"
    /\ trail = <<"classifier", "dispatcher", "composer">>
    /\ reply = NoReply
    /\ tasks_db /= <<>>

-----------------------------------------------------------------------------
(* Properties of id assignment *)

\* C20: the id a create assigns is the number of tasks created before it plus
\* one, whatever has been deleted since: the k-th create of a run assigns k
C20_IdIsCreationCount ==
    \A k \in 1..Len(created_ids) : created_ids[k] = k

\* C21: the order of the collection is the order of the ids: a task standing
\* earlier in tasks_db has a smaller id than every task standing later
C21_InsertionOrderIsIdOrder ==
    \A i, j \in 1..Len(tasks_db) : i < j => tasks_db[i].id < tasks_db[j].id

-----------------------------------------------------------------------------
(* Properties of the titles the dispatcher stores *)

\* C22: a dispatcher create, whatever parameter record the extractor
\* returned, does not fail and appends a task whose title is a non-empty
\* string: the title supplied, or the placeholder when none usable was
C22_TitleNeverEmpty ==
    [][(pc = "execute" /\ action = "create" /\ IsDict(params)) =>
          /\ result'.kind = "created"
          /\ Len(tasks_db') = Len(tasks_db) + 1
          /\ Truthy(tasks_db'[Len(tasks_db')].title)
          /\ ~Truthy(Get(params, "title", None)) =>
                tasks_db'[Len(tasks_db')].title = "Untitled Task"]_vars

-----------------------------------------------------------------------------
(* Properties of what an update leaves alone *)

\* C23: an update, whatever fields it carries, keeps the number of tasks and
\* the id and created_at of every task; when no task has the id it returns
\* None and leaves every task as it was
C23_UpdateKeepsIdAndCreatedAt ==
    [][call'.op = "update" =>
        /\ Len(tasks_db') = Len(tasks_db)
        /\ \A j \in 1..Len(tasks_db) :
              /\ tasks_db'[j].id = tasks_db[j].id
              /\ tasks_db'[j].created_at = tasks_db[j].created_at
        /\ Holding(tasks_db, call'.task_id) = {} =>
              (ret' = RetNone /\ tasks_db' = tasks_db)
        /\ Holding(tasks_db, call'.task_id) /= {} => ret'.tag = "task"]_vars

\* an update carrying every field has changed a task made at an earlier time,
\* which still has its id and that time as created_at
C23_Witness ==
    /\ call.op = "update"
    /\ \A f \in UpdatableFields : Truthy(call[f])
    /\ ret.tag = "task"
    /\ ret.val.id = call.task_id
    /\ ret.val.title = call.title
    /\ ret.val.created_at < now
    /\ ret.val.created_at /= NoTime

-----------------------------------------------------------------------------
(* Properties of a request that fails after its dispatch *)

\* C24: when the composer fails after the dispatcher has applied a create,
\* update or delete, the failing step leaves the store as the dispatcher made
\* it, the caller gets the error string and task_processing_failed is logged
C24_FailedRequestKeepsMutation ==
    [][(pc = "compose" /\ response'.kind = "error") =>
          /\ UNCHANGED store_vars
          /\ result' = result
          /\ response'.prefix = "I encountered an error: "
          /\ \E i \in 1..Len(events') : events'[i] = "task_processing_failed"
          /\ pc' = "idle"]_vars

\* a create request has been answered with the error string and logged as
\* failed, and the task its dispatcher created is in the store
C24_Witness ==
    /\ Answered
    /\ action = "create"
    /\ result.kind = "created"
    /\ response.kind = "error"
    /\ \E i \in 1..Len(events) : events[i] = "task_processing_failed"
    /\ tasks_db /= <<>>
    /\ tasks_db[Len(tasks_db)].id = result.id
    /\ tasks_db[Len(tasks_db)] = ret.val

-----------------------------------------------------------------------------
(* Properties of listing through the pipeline *)

-----------------------------------------------------------------------------
(* Properties of completed_at over the life of a task *)

\* the position of db holding the task created at this time, 0 when it holds
\* none: the clock has passed between any two creates, so created_at tells
\* the tasks of a run apart where ids do not
CreatedAt(db, stamp) ==
    IF \E i \in 1..Len(db) : db[i].created_at = stamp
    THEN CHOOSE i \in 1..Len(db) : db[i].created_at = stamp
    ELSE 0

\* C26: after every step, a task whose status is completed has a completed_at,
\* and a task has a completed_at only if it had one before the step or the
\* step is an update to completed of this task: a task never updated to
\* completed since its creation has completed_at None
C26_CompletedAtFollowsHistory ==
    [][\A j \in 1..Len(tasks_db') :
          LET task == tasks_db'[j]
              before == CreatedAt(tasks_db, task.created_at)
          IN /\ task.status = "completed" => task.completed_at /= NoTime
             /\ task.completed_at /= NoTime =>
                   /\ before /= 0
                   /\ \/ tasks_db[before].completed_at /= NoTime
                      \/ /\ call'.op = "update"
                         /\ call'.status = "completed"
                         /\ call'.task_id = task.id]_vars

\* the store holds a completed task with its completed_at next to a task that
\* was updated, never to completed, and has none
C26_Witness ==
    \E i, j \in 1..Len(tasks_db) :
        /\ tasks_db[i].status = "completed"
        /\ tasks_db[i].completed_at /= NoTime
        /\ tasks_db[j].status = "in_progress"
        /\ tasks_db[j].completed_at = NoTime

====
